---- MODULE Spec2Model ----
(***************************************************************************)
(* Canon camera MCP server: the tool dispatch layer (server.py), the       *)
(* camera client (canon_camera.py) and the image size adapter.             *)
(*                                                                         *)
(* The camera, the HTTP transport and the image encoder are the            *)
(* environment: a request's outcome and an encoding's byte length are      *)
(* chosen nondeterministically from bounded sets.                          *)
(***************************************************************************)
EXTENDS Integers, Sequences, FiniteSets, TLC

VARIABLES
    doc,              \* camera: the settings document it currently reports
    reachable,        \* camera: whether it accepts connections
    pc,               \* server: "startup", "serving", "liveview", "hung", "dead"
    call,             \* server: the invocation in progress or last finished
    failedBefore,     \* history: a finished invocation hit a transport failure
    apc,              \* adapter: "idle", "called", "phase1", "phase2", "done"
    pil_img,          \* adapter: the frame, [mode, size]
    format,           \* adapter: the format argument
    target_size_mb,   \* adapter: the target_size_mb argument
    target_size_bytes,\* adapter: local of compress_image_to_target_size
    quality,          \* adapter: Phase 1 loop variable
    scale_factor,     \* adapter: Phase 2 loop variable (an IEEE double)
    img_byte_arr,     \* adapter: the buffer of the latest encoding
    ret,              \* adapter: what the adapter returned or raised
    q95size,          \* history: byte length of the quality-95 encoding
    seenBefore,       \* history: byte lengths produced before the latest step
    seen2,            \* history: byte lengths produced during Phase 2
    steps             \* history: number of encodings produced

camVars == <<doc, reachable>>
srvVars == <<pc, call, failedBefore>>
imgVars == <<apc, pil_img, format, target_size_mb, target_size_bytes, quality,
             scale_factor, img_byte_arr, ret, q95size, seenBefore, seen2, steps>>
vars == <<doc, reachable, pc, call, failedBefore, apc, pil_img, format,
          target_size_mb, target_size_bytes, quality, scale_factor,
          img_byte_arr, ret, q95size, seenBefore, seen2, steps>>

(***************************************************************************)
(* Bounds of the model.                                                    *)
(***************************************************************************)
MaxOver == 1          \* encodings are at most this many bytes over 1 MiB
MaxTargetMb == 1      \* budgets of 0 .. MaxTargetMb megabytes

None == [kind |-> "None"]

(***************************************************************************)
(* IEEE-754 doubles in 0 .. 1, held exactly as an integer number of units  *)
(* of 2^-56 split in two limbs: value = (hi * 2^28 + lo) * 2^-56.          *)
(* 2^-56 is the ulp of 0.1, so 0.1, 0.9 and every difference the loop      *)
(* forms are whole numbers of units.                                       *)
(***************************************************************************)
Limb == 2^28

\* the double nearest 0.9 (0x1.ccccccccccccdp-1)
ScaleStart == [hi |-> 241591910, lo |-> 107374184]
\* the double nearest 0.1 (0x1.999999999999ap-4)
ScaleStep == [hi |-> 26843545, lo |-> 161061274]
ScaleFloor == [hi |-> 26843545, lo |-> 161061274]

\* a > b on doubles
FGt(a, b) == a.hi > b.hi \/ (a.hi = b.hi /\ a.lo > b.lo)

\* a - b on doubles, a >= b: the exact difference rounded to 53 significant
\* bits, ties to even.  In [1/2,1) the ulp is 8 units, in [1/4,1/2) 4, in
\* [1/8,1/4) 2, below that the difference is exact.
FSub(a, b) ==
    LET borrow == IF a.lo < b.lo THEN 1 ELSE 0
        dlo    == a.lo - b.lo + borrow * Limb
        dhi    == a.hi - b.hi - borrow
        ulp    == IF dhi >= 2^27 THEN 8
                  ELSE IF dhi >= 2^26 THEN 4
                  ELSE IF dhi >= 2^25 THEN 2 ELSE 1
        r      == dlo % ulp
        down   == dlo - r
        up     == 2 * r > ulp \/ (2 * r = ulp /\ (down \div ulp) % 2 = 1)
        rlo    == IF up THEN down + ulp ELSE down
    IN  IF rlo = Limb THEN [hi |-> dhi + 1, lo |-> 0]
        ELSE [hi |-> dhi, lo |-> rlo]

RECURSIVE BitLen(_)
BitLen(n) == IF n = 0 THEN 0 ELSE 1 + BitLen(n \div 2)

\* int(w * s) for an integer 0 <= w < 2^16 and a double s: the exact product
\* in four 14-bit limbs below the binary point (p3..p0) and the integer part
\* ip, rounded to 53 significant bits, then truncated.  Rounding changes the
\* integer part only when it carries the fraction up to the next integer.
IntMul(w, s) ==
    LET B    == 2^14
        t0   == w * (s.lo % B)
        t1   == w * (s.lo \div B) + (t0 \div B)
        t2   == w * (s.hi % B) + (t1 \div B)
        t3   == w * (s.hi \div B) + (t2 \div B)
        p0   == t0 % B
        p1   == t1 % B
        p2   == t2 % B
        p3   == t3 % B
        ip   == t3 \div B
        drop == IF ip > 0 THEN 3 + BitLen(ip)
                ELSE IF BitLen(p3) > 11 THEN BitLen(p3) - 11 ELSE 0
        gap  == Limb - (p1 * B + p0)
        bump == /\ drop >= 1
                /\ p3 = B - 1
                /\ p2 = B - 1
                /\ 2 * gap <= 2^drop
    IN  ip + (IF bump THEN 1 ELSE 0)


(***************************************************************************)
(* Image Size Adapter: compress_image_to_target_size and                   *)
(* resize_and_compress_image.  A frame is [mode, size]; the encoder        *)
(* (PIL's save) is the environment: the byte length of an encoding is any  *)
(* member of EncSizes, but a deterministic function of what is encoded.    *)
(***************************************************************************)
BytesPerMb == 1024 * 1024

EncSizes == (BytesPerMb - 1) .. (BytesPerMb + MaxOver)

Modes == {"RGB", "RGBA", "P"}
Formats == {"JPEG", "jpeg", "PNG"}
FrameSizes == {<<30, 20>>, <<10, 10>>, <<5, 5>>}

\* str.upper on the format names in use
Upper(f) == CASE f = "jpeg" -> "JPEG"
              [] f = "png" -> "PNG"
              [] OTHER -> f

NoScale == [hi |-> 0, lo |-> 0]

\* the quality parameter handed to save: PNG takes none
SaveQuality(fmt, q) == IF Upper(fmt) = "JPEG" THEN q ELSE 0

\* sizes the encoder may answer for (dims, q): the same input encodes to the
\* same bytes, so a repeat of the latest encoding repeats its length
EncChoices(dims, q) ==
    IF /\ img_byte_arr.kind = "BytesIO"
       /\ img_byte_arr.dims = dims
       /\ img_byte_arr.quality = q
    THEN {img_byte_arr.size}
    ELSE EncSizes

Buffer(sz, dims, q) == [kind |-> "BytesIO", size |-> sz, dims |-> dims, quality |-> q]

\* history: the latest encoding joins the ones produced before it
NoteStep == seenBefore' = seenBefore \cup
                (IF img_byte_arr.kind = "BytesIO" THEN {img_byte_arr.size} ELSE {})

\* variant: a strict comparison, an encoding of exactly the budget is passed over
Fits_strict(img_size, budget) == img_size < budget

\* lines 64 and 98: if img_size <= target_size_bytes
Fits(img_size, budget) == img_size <= budget

\* lines 43-51: budget in bytes, RGBA/P to RGB for JPEG, quality = 95
compress_image_to_target_size_entry ==
    /\ apc = "called"
    /\ target_size_bytes' = target_size_mb * 1024 * 1024
    /\ pil_img' = IF Upper(format) = "JPEG" /\ pil_img.mode \in {"RGBA", "P"}
                  THEN [pil_img EXCEPT !.mode = "RGB"]
                  ELSE pil_img
    /\ quality' = 95
    /\ apc' = "phase1"
    /\ UNCHANGED <<format, target_size_mb, scale_factor, img_byte_arr, ret,
                   q95size, seenBefore, seen2, steps>>
    /\ UNCHANGED <<camVars, srvVars>>

min_quality == 10

\* lines 53-68: one iteration of the quality loop
compress_image_to_target_size_loop ==
    /\ apc = "phase1"
    /\ quality >= min_quality
    /\ \E img_size \in EncChoices(pil_img.size, SaveQuality(format, quality)) :
         /\ img_byte_arr' = Buffer(img_size, pil_img.size, SaveQuality(format, quality))
         /\ q95size' = IF quality = 95 THEN img_size ELSE q95size
         /\ NoteStep
         /\ steps' = steps + 1
         /\ IF Fits(img_size, target_size_bytes)
            THEN /\ ret' = [kind |-> "return", buf |-> img_byte_arr']
                 /\ apc' = "done"
                 /\ UNCHANGED quality
            ELSE /\ quality' = quality - 5
                 /\ UNCHANGED <<ret, apc>>
    /\ UNCHANGED <<pil_img, format, target_size_mb, target_size_bytes,
                   scale_factor, seen2>>
    /\ UNCHANGED <<camVars, srvVars>>

\* lines 70-80: the quality loop ran out; enter resize_and_compress_image
compress_image_to_target_size_resize ==
    /\ apc = "phase1"
    /\ quality < min_quality
    /\ scale_factor' = ScaleStart
    /\ NoteStep
    /\ img_byte_arr' = None
    /\ apc' = "phase2"
    /\ UNCHANGED <<pil_img, format, target_size_mb, target_size_bytes, quality,
                   ret, q95size, seen2, steps>>
    /\ UNCHANGED <<camVars, srvVars>>

\* lines 82-101: one iteration of the resolution loop.  Image.resize raises
\* ValueError ("height and width must be > 0") for an empty target size.
resize_and_compress_image_loop ==
    /\ apc = "phase2"
    /\ FGt(scale_factor, ScaleFloor)
    /\ LET new_width  == IntMul(pil_img.size[1], scale_factor)
           new_height == IntMul(pil_img.size[2], scale_factor)
           q          == SaveQuality(format, 75)
       IN  IF new_width < 1 \/ new_height < 1
           THEN /\ ret' = [kind |-> "raise", exc |-> "ValueError"]
                /\ apc' = "done"
                /\ UNCHANGED <<img_byte_arr, scale_factor, seenBefore, seen2, steps>>
           ELSE \E img_size \in EncChoices(<<new_width, new_height>>, q) :
                  /\ img_byte_arr' = Buffer(img_size, <<new_width, new_height>>, q)
                  /\ NoteStep
                  /\ seen2' = seen2 \cup {img_size}
                  /\ steps' = steps + 1
                  /\ IF Fits(img_size, target_size_bytes)
                     THEN /\ ret' = [kind |-> "return", buf |-> img_byte_arr']
                          /\ apc' = "done"
                          /\ UNCHANGED scale_factor
                     ELSE /\ scale_factor' = FSub(scale_factor, ScaleStep)
                          /\ UNCHANGED <<ret, apc>>
    /\ UNCHANGED <<pil_img, format, target_size_mb, target_size_bytes, quality,
                   q95size>>
    /\ UNCHANGED <<camVars, srvVars>>

\* lines 103-104: the resolution loop ran out; return the buffer at hand
resize_and_compress_image_exhausted ==
    /\ apc = "phase2"
    /\ ~FGt(scale_factor, ScaleFloor)
    /\ ret' = IF img_byte_arr.kind = "BytesIO"
              THEN [kind |-> "return", buf |-> img_byte_arr]
              ELSE [kind |-> "raise", exc |-> "AttributeError"]
    /\ apc' = "done"
    /\ UNCHANGED <<pil_img, format, target_size_mb, target_size_bytes, quality,
                   scale_factor, img_byte_arr, q95size, seenBefore, seen2, steps>>
    /\ UNCHANGED <<camVars, srvVars>>

\* locals and history before the first statement of a call
AdapterLocalsFresh ==
    /\ target_size_bytes = 0
    /\ quality = 0
    /\ scale_factor = NoScale
    /\ img_byte_arr = None
    /\ ret = None
    /\ q95size = 0
    /\ seenBefore = {}
    /\ seen2 = {}
    /\ steps = 0

\* the adapter's variables between calls
AdapterIdle ==
    /\ apc = "idle"
    /\ pil_img = [mode |-> "RGB", size |-> <<0, 0>>]
    /\ format = "JPEG"
    /\ target_size_mb = 0
    /\ AdapterLocalsFresh


(***************************************************************************)
(* The camera.  It reports a record per setting: a value and, usually, the *)
(* `ability` list of the values it accepts now.  Both change under the     *)
(* server's feet (dials, lens, mode), and the camera reports other keys.   *)
(***************************************************************************)
Vals == {"v1", "v2"}
Abilities == {<<"v1", "v2">>, <<"v2">>}

\* the records the camera may report for a setting: av's allowed set shifts
\* and may be missing, tv's is fixed, iso comes without one
RecsOf(k) ==
    CASE k = "av" -> [value : Vals] \cup [value : Vals, ability : Abilities]
      [] k = "tv" -> [value : Vals, ability : {<<"v1", "v2">>}]
      [] OTHER -> [value : Vals]

CameraSettings == {"av", "tv", "iso"}
ModeDial == [value |-> "m"]
ExtraField == [value |-> "x"]

DocOf(core, withDial) ==
    [k \in CameraSettings \cup {"extra_field"} \cup
           (IF withDial THEN {"shootingmodedial"} ELSE {}) |->
        IF k \in CameraSettings THEN core[k]
        ELSE IF k = "extra_field" THEN ExtraField ELSE ModeDial]

Docs == {DocOf(core, d) :
            core \in {c \in [CameraSettings -> UNION {RecsOf(k) : k \in CameraSettings}] :
                         \A k \in CameraSettings : c[k] \in RecsOf(k)},
            d \in BOOLEAN}

InSeq(x, seq) == \E i \in 1..Len(seq) : seq[i] = x

\* what can become of a request: answered 2xx, answered non-2xx, connection
\* refused, or accepted and never answered.  An unknown setting name is
\* never answered 2xx.
Outcomes(known) ==
    IF ~reachable THEN {"refused"}
    ELSE (IF known THEN {"ok"} ELSE {}) \cup {"http_error", "hang"}

(***************************************************************************)
(* Camera Client (canon_camera.py).  A request is logged with its timeout  *)
(* ({} is requests' default: none) and its outcome.  A client method       *)
(* yields [log, exc, val]: the requests it sent, the exception it raised   *)
(* ("" if none) and its return value.                                      *)
(***************************************************************************)
Request(method, ep, name, body, timeout, outcome, resp) ==
    [method |-> method, ep |-> ep, name |-> name, body |-> body,
     timeout |-> timeout, outcome |-> outcome,
     resp |-> IF outcome = "ok" THEN resp ELSE None]

RequestExceptions == {"ConnectionError", "Timeout", "HTTPError"}

\* requests.get/put/post with a timeout: the transport's exception, if any
TransportExc(outcome) ==
    CASE outcome = "refused" -> "ConnectionError"
      [] outcome = "hang" -> "Timeout"
      [] OTHER -> ""

\* response.raise_for_status()
raise_for_status(outcome) == IF outcome = "http_error" THEN "HTTPError" ELSE ""

Raised(log, exc) == [log |-> log, exc |-> exc, val |-> None]
Returned(log, val) == [log |-> log, exc |-> "", val |-> val]

\* the camera's answer to GET /settings and GET /settings/{name}
SettingsBody(name) == IF name = "" THEN doc ELSE
                      IF name \in DOMAIN doc THEN doc[name] ELSE None

_get(ep, name, outcome) ==
    LET req == Request("GET", ep, name, "", {10}, outcome, SettingsBody(name))
    IN  IF TransportExc(outcome) # "" THEN Raised(<<req>>, TransportExc(outcome))
        ELSE IF raise_for_status(outcome) # ""
             THEN Raised(<<req>>, raise_for_status(outcome))
        ELSE Returned(<<req>>, req.resp)

_put(ep, name, data, outcome) ==
    LET req == Request("PUT", ep, name, data, {10}, outcome, None)
    IN  IF TransportExc(outcome) # "" THEN Raised(<<req>>, TransportExc(outcome))
        ELSE IF raise_for_status(outcome) # ""
             THEN Raised(<<req>>, raise_for_status(outcome))
        ELSE Returned(<<req>>, None)

get_all_settings(outcome) ==
    LET r == _get("settings", "", outcome)
    IN  r

get_setting(setting_name, outcome) ==
    LET r == _get("settings", setting_name, outcome)
    IN  r

\* variant: the allow-list check left out
set_setting_unchecked(setting_name, value, o1, o2) ==
    LET g == get_setting(setting_name, o1)
        current == g.val
    IN  IF g.exc # "" THEN g
        ELSE LET p == _put("settings", setting_name, value, o2)
             IN  IF p.exc # "" THEN Raised(g.log \o p.log, p.exc)
                 ELSE Returned(g.log \o p.log,
                               [setting |-> setting_name,
                                previous_value |-> current.value,
                                new_value |-> value,
                                success |-> TRUE])

\* variant: previous_value taken from the value just written
set_setting_prev_new(setting_name, value, o1, o2) ==
    LET g == get_setting(setting_name, o1)
        current == g.val
    IN  IF g.exc # "" THEN g
        ELSE IF "ability" \in DOMAIN current /\ ~InSeq(value, current.ability)
             THEN Raised(g.log, "ValueError")
        ELSE LET p == _put("settings", setting_name, value, o2)
             IN  IF p.exc # "" THEN Raised(g.log \o p.log, p.exc)
                 ELSE Returned(g.log \o p.log,
                               [setting |-> setting_name,
                                previous_value |-> value,
                                new_value |-> value,
                                success |-> TRUE])

\* variant: the value checked against the allow-list the camera reported
\* when the server started, not the one just read
set_setting_stale(setting_name, value, o1, o2) ==
    LET g == get_setting(setting_name, o1)
        current == g.val
        cached == IF setting_name = "iso" THEN [value |-> "v1"]
                  ELSE [value |-> "v1", ability |-> <<"v1", "v2">>]
    IN  IF g.exc # "" THEN g
        ELSE IF "ability" \in DOMAIN cached /\ ~InSeq(value, cached.ability)
             THEN Raised(g.log, "ValueError")
        ELSE LET p == _put("settings", setting_name, value, o2)
             IN  IF p.exc # "" THEN Raised(g.log \o p.log, p.exc)
                 ELSE Returned(g.log \o p.log,
                               [setting |-> setting_name,
                                previous_value |-> current.value,
                                new_value |-> value,
                                success |-> TRUE])

\* variant: a record without `ability` treated as a validation failure
set_setting_strict(setting_name, value, o1, o2) ==
    LET g == get_setting(setting_name, o1)
        current == g.val
    IN  IF g.exc # "" THEN g
        ELSE IF "ability" \notin DOMAIN current \/ ~InSeq(value, current.ability)
             THEN Raised(g.log, "ValueError")
        ELSE LET p == _put("settings", setting_name, value, o2)
             IN  IF p.exc # "" THEN Raised(g.log \o p.log, p.exc)
                 ELSE Returned(g.log \o p.log,
                               [setting |-> setting_name,
                                previous_value |-> current.value,
                                new_value |-> value,
                                success |-> TRUE])

set_setting(setting_name, value, o1, o2) ==
    LET g == get_setting(setting_name, o1)
        current == g.val
    IN  IF g.exc # "" THEN g
        ELSE IF "ability" \in DOMAIN current /\ ~InSeq(value, current.ability)
             THEN Raised(g.log, "ValueError")
        ELSE LET p == _put("settings", setting_name, value, o2)
             IN  IF p.exc # "" THEN Raised(g.log \o p.log, p.exc)
                 ELSE Returned(g.log \o p.log,
                               [setting |-> setting_name,
                                previous_value |-> current.value,
                                new_value |-> value,
                                success |-> TRUE])

\* requests.post without a timeout: a camera that never answers blocks the
\* caller for good ("blocked"); the status code is returned unchecked
init_live_view(outcome) ==
    LET req == Request("POST", "liveview", "", "small,keep", {}, outcome, None)
    IN  IF outcome = "refused" THEN Raised(<<req>>, "ConnectionError")
        ELSE IF outcome = "hang" THEN Raised(<<req>>, "blocked")
        ELSE Returned(<<req>>, [status_code |-> outcome])

get_liveview_image(outcome, body) ==
    LET req == Request("GET", "liveview/flip", "", "", {15}, outcome, body)
    IN  IF TransportExc(outcome) # "" THEN Raised(<<req>>, TransportExc(outcome))
        ELSE IF raise_for_status(outcome) # ""
             THEN Raised(<<req>>, raise_for_status(outcome))
        ELSE Returned(<<req>>, req.resp)


(***************************************************************************)
(* Tool Dispatch Layer (server.py).  A handler's try body yields           *)
(* [log, exc, val]; its except clauses turn exc into the error envelope.   *)
(* An invocation is recorded in `call`.                                    *)
(***************************************************************************)
ErrorEnvelope(kind, exc) == [success |-> FALSE, error |-> kind, message |-> exc]

IsEnvelope(r) == "error" \in DOMAIN r

Call(op, setting, value, log, result, done) ==
    [op |-> op, setting |-> setting, value |-> value, log |-> log,
     result |-> result, done |-> done]

NoCall == Call("none", "", "", <<>>, None, TRUE)

keys_to_keep == {"av", "tv", "iso", "shootingmodedial"}
valid_settings_get == {"av", "tv", "iso", "shootingmodedial"}
valid_settings_set == {"av", "tv", "iso"}

\* what callers pass
GetArgs == {"all", "av", "tv", "iso", "shootingmodedial", "zoom"}
SetArgs == {"av", "tv", "iso", "shootingmodedial", "zoom"}
ValueArgs == {"", "v1", "v2"}

\* variant: the whole document passed on
Project_all(result) == result

\* line 129: {key: result[key] for key in keys_to_keep if key in result}
Project(result) == [key \in {k \in keys_to_keep : k \in DOMAIN result} |-> result[key]]

\* line 137: result["setting_name"] = setting
WithSettingName(result, setting) ==
    [k \in DOMAIN result \cup {"setting_name"} |->
        IF k = "setting_name" THEN setting ELSE result[k]]

\* lines 124-140
get_camera_settings_try(setting, o) ==
    IF setting = "all"
    THEN LET r == get_all_settings(o)
         IN  IF r.exc # "" THEN r ELSE Returned(r.log, Project(r.val))
    ELSE IF setting \notin valid_settings_get THEN Raised(<<>>, "ValueError")
    ELSE LET r == get_setting(setting, o)
         IN  IF r.exc # "" THEN r
             ELSE Returned(r.log, WithSettingName(r.val, setting))

\* lines 142-164: the error kind of the first except clause that matches;
\* the last one, except Exception, matches whatever is left
get_camera_settings_except(exc) ==
    IF exc \in RequestExceptions THEN "camera_communication_error"
    ELSE IF exc = "ValueError" THEN "invalid_parameter"
    ELSE "internal_error"

\* variant: the empty value not rejected
set_camera_setting_try_anyvalue(setting, value, o1, o2) ==
    IF setting \notin valid_settings_set THEN Raised(<<>>, "ValueError")
    ELSE set_setting(setting, value, o1, o2)

\* lines 176-185
set_camera_setting_try(setting, value, o1, o2) ==
    IF setting \notin valid_settings_set THEN Raised(<<>>, "ValueError")
    ELSE IF value = "" THEN Raised(<<>>, "ValueError")
    ELSE set_setting(setting, value, o1, o2)

\* lines 187-209
set_camera_setting_except(exc) ==
    IF exc \in RequestExceptions THEN "camera_communication_error"
    ELSE IF exc = "ValueError" THEN "invalid_parameter"
    ELSE "internal_error"

\* variant: no clause for transport failures, the catch-all takes them
get_liveview_except_catchall(exc) == "internal_error"

\* lines 233-247
get_liveview_except(exc) ==
    IF exc \in RequestExceptions THEN "camera_communication_error"
    ELSE "internal_error"

\* the handler's answer, and the process after it: an exception that no
\* clause caught ("uncaught") would leave the handler and end the process
Answer(r, kind) == IF r.exc = "" THEN r.val ELSE ErrorEnvelope(kind, r.exc)
After(r, kind) == IF r.exc # "" /\ kind = "uncaught" THEN "dead" ELSE "serving"
Failed(r, kind) == r.exc # "" /\ kind = "camera_communication_error"

\* the camera after the requests of `log`: a PUT it answered 2xx took effect
Applied(d, log) ==
    IF \E i \in 1..Len(log) : log[i].method = "PUT" /\ log[i].outcome = "ok"
    THEN LET i == CHOOSE i \in 1..Len(log) :
                      log[i].method = "PUT" /\ log[i].outcome = "ok"
         IN  [d EXCEPT ![log[i].name].value = log[i].body]
    ELSE d

\* the outcomes to draw for a request the handler may not send at all: one
\* is enough when it is not sent
IfSent(log, method, outcomes) ==
    IF \E i \in 1..Len(log) : log[i].method = method
    THEN outcomes ELSE {"refused"}

get_camera_settings ==
    /\ pc = "serving"
    /\ \E setting \in GetArgs :
       \E o \in IfSent(get_camera_settings_try(setting, "refused").log, "GET",
                       Outcomes(setting = "all" \/ setting \in DOMAIN doc)) :
         LET r    == get_camera_settings_try(setting, o)
             kind == get_camera_settings_except(r.exc)
         IN  /\ call' = Call("get_camera_settings", setting, "", r.log,
                             Answer(r, kind), TRUE)
             /\ pc' = After(r, kind)
             /\ failedBefore' = (failedBefore \/ Failed(r, kind))
    /\ UNCHANGED <<camVars, imgVars>>

set_camera_setting ==
    /\ pc = "serving"
    /\ \E setting \in SetArgs, value \in ValueArgs :
       \E o1 \in IfSent(set_camera_setting_try(setting, value, "refused", "refused").log,
                        "GET", Outcomes(setting \in DOMAIN doc)) :
       \E o2 \in IfSent(set_camera_setting_try(setting, value, o1, "refused").log,
                        "PUT", Outcomes(TRUE)) :
         LET r    == set_camera_setting_try(setting, value, o1, o2)
             kind == set_camera_setting_except(r.exc)
         IN  /\ call' = Call("set_camera_setting", setting, value, r.log,
                             Answer(r, kind), TRUE)
             /\ doc' = Applied(doc, r.log)
             /\ pc' = After(r, kind)
             /\ failedBefore' = (failedBefore \/ Failed(r, kind))
    /\ UNCHANGED <<reachable, imgVars>>

\* what the camera sends for a frame: an image, or something PIL cannot open
LiveFrames == {[mode |-> "RGB", size |-> <<30, 20>>]}
NotAnImage == [mode |-> "none", size |-> <<0, 0>>]

\* lines 219-225, up to the call of the adapter
get_liveview ==
    /\ pc = "serving"
    /\ apc = "idle"
    /\ \E o \in Outcomes(TRUE), body \in LiveFrames \cup {NotAnImage} :
         LET f    == get_liveview_image(o, body)
             r    == IF f.exc = "" /\ f.val = NotAnImage
                     THEN Raised(f.log, "UnidentifiedImageError")
                     ELSE f
             kind == get_liveview_except(r.exc)
         IN  IF r.exc # ""
             THEN /\ call' = Call("get_liveview", "", "", r.log, Answer(r, kind), TRUE)
                  /\ pc' = After(r, kind)
                  /\ failedBefore' = (failedBefore \/ Failed(r, kind))
                  /\ UNCHANGED imgVars
             ELSE /\ call' = Call("get_liveview", "", "", r.log, None, FALSE)
                  /\ pc' = "liveview"
                  /\ apc' = "called"
                  /\ pil_img' = r.val
                  /\ format' = "JPEG"
                  /\ target_size_mb' = 1
                  /\ UNCHANGED <<failedBefore, target_size_bytes, quality,
                                 scale_factor, img_byte_arr, ret, q95size,
                                 seenBefore, seen2, steps>>
    /\ UNCHANGED camVars

\* lines 226-231 and 233-247, once the adapter is back
get_liveview_return ==
    /\ pc = "liveview"
    /\ apc = "done"
    /\ LET r    == IF ret.kind = "return"
                   THEN Returned(call.log, [image |-> ret.buf, format |-> "jpeg"])
                   ELSE Raised(call.log, ret.exc)
           kind == get_liveview_except(r.exc)
       IN  /\ call' = [call EXCEPT !.result = Answer(r, kind), !.done = TRUE]
           /\ pc' = After(r, kind)
           /\ failedBefore' = (failedBefore \/ Failed(r, kind))
    /\ apc' = "idle"
    /\ pil_img' = [mode |-> "RGB", size |-> <<0, 0>>]
    /\ format' = "JPEG"
    /\ target_size_mb' = 0
    /\ target_size_bytes' = 0
    /\ quality' = 0
    /\ scale_factor' = NoScale
    /\ img_byte_arr' = None
    /\ ret' = None
    /\ q95size' = 0
    /\ seenBefore' = {}
    /\ seen2' = {}
    /\ steps' = 0
    /\ UNCHANGED camVars

\* main, lines 260-267: the connectivity probe; any exception is logged and
\* the server starts anyway
main ==
    /\ pc = "startup"
    /\ \E o1 \in Outcomes(TRUE) :
       \E o2 \in (IF get_all_settings(o1).exc = "" THEN Outcomes(TRUE) ELSE {"refused"}) :
         LET g == get_all_settings(o1)
             r == IF g.exc # "" THEN g
                  ELSE LET l == init_live_view(o2)
                       IN  [l EXCEPT !.log = g.log \o l.log]
         IN  /\ call' = Call("main", "", "", r.log, None, r.exc # "blocked")
             /\ pc' = IF r.exc = "blocked" THEN "hung" ELSE "serving"
    /\ UNCHANGED <<failedBefore, camVars, imgVars>>

(***************************************************************************)
(* The environment between invocations.                                    *)
(***************************************************************************)
CameraChange ==
    /\ pc \in {"startup", "serving"}
    /\ \E d \in Docs :
         /\ DOMAIN d = DOMAIN doc
         /\ Cardinality({k \in DOMAIN doc : d[k] # doc[k]}) = 1
         /\ doc' = d
    /\ UNCHANGED <<reachable, srvVars, imgVars>>

ReachabilityChange ==
    /\ pc \in {"startup", "serving"}
    /\ reachable' = ~reachable
    /\ UNCHANGED <<doc, srvVars, imgVars>>

\* the camera when the server starts; a body has a mode dial or has none
Core0 == [k \in CameraSettings |->
            IF k = "iso" THEN [value |-> "v1"]
            ELSE [value |-> "v1", ability |-> <<"v1", "v2">>]]
Doc0 == DocOf(Core0, TRUE)

Init ==
    /\ doc \in {DocOf(Core0, d) : d \in BOOLEAN}
    /\ reachable \in BOOLEAN
    /\ pc = "startup"
    /\ call = NoCall
    /\ failedBefore = FALSE
    /\ AdapterIdle

Next ==
    \/ main
    \/ get_camera_settings
    \/ set_camera_setting
    \/ get_liveview
    \/ get_liveview_return
    \/ compress_image_to_target_size_entry
    \/ compress_image_to_target_size_loop
    \/ compress_image_to_target_size_resize
    \/ resize_and_compress_image_loop
    \/ resize_and_compress_image_exhausted
    \/ CameraChange
    \/ ReachabilityChange

Spec == Init /\ [][Next]_vars

(***************************************************************************)
(* The adapter called directly, on any frame, budget and format.           *)
(***************************************************************************)
ImgInit ==
    /\ doc = Doc0
    /\ reachable = TRUE
    /\ pc = "direct"
    /\ call = NoCall
    /\ failedBefore = FALSE
    /\ apc = "called"
    /\ pil_img \in [mode : Modes, size : FrameSizes]
    /\ format \in Formats
    /\ target_size_mb \in 0..MaxTargetMb
    /\ AdapterLocalsFresh

ImgNext ==
    \/ compress_image_to_target_size_entry
    \/ compress_image_to_target_size_loop
    \/ compress_image_to_target_size_resize
    \/ resize_and_compress_image_loop
    \/ resize_and_compress_image_exhausted

ImgSpec == ImgInit /\ [][ImgNext]_vars


(***************************************************************************)
(* Properties.                                                             *)
(***************************************************************************)
Tools == {"get_camera_settings", "set_camera_setting", "get_liveview"}

PutsIn(log) == {i \in 1..Len(log) : log[i].method = "PUT"}

\* a finished set_camera_setting whose read of the setting was answered
SetRead ==
    /\ call.op = "set_camera_setting"
    /\ call.done
    /\ Len(call.log) >= 1
    /\ call.log[1].method = "GET"
    /\ call.log[1].outcome = "ok"

HasAbility(rec) == "ability" \in DOMAIN rec /\ Len(rec.ability) > 0

IsError(r, kind) == IsEnvelope(r) /\ r.success = FALSE /\ r.error = kind

\* C1: when the record just read carries a non-empty ability list and the
\* value is not in it, set_camera_setting answers invalid_parameter and
\* sends no PUT.
C1_InvalidValueRejected ==
    (/\ SetRead
     /\ HasAbility(call.log[1].resp)
     /\ ~InSeq(call.value, call.log[1].resp.ability))
    => (/\ IsError(call.result, "invalid_parameter")
        /\ PutsIn(call.log) = {})

C1_Witness ==
    /\ SetRead
    /\ HasAbility(call.log[1].resp)
    /\ ~InSeq(call.value, call.log[1].resp.ability)

\* C2: when the record just read carries a non-empty ability list, the value
\* is in it and the camera answers the write 2xx, exactly one PUT carrying
\* the value is sent and the result is success with new_value the value and
\* previous_value the value the read reported.
C2_ValidValueWritten ==
    (/\ SetRead
     /\ HasAbility(call.log[1].resp)
     /\ InSeq(call.value, call.log[1].resp.ability)
     /\ \A i \in PutsIn(call.log) : call.log[i].outcome = "ok")
    => (/\ Cardinality(PutsIn(call.log)) = 1
        /\ \A i \in PutsIn(call.log) :
              /\ call.log[i].body = call.value
              /\ call.log[i].name = call.setting
              /\ call.log[i].ep = "settings"
        /\ call.result = [setting |-> call.setting,
                          previous_value |-> call.log[1].resp.value,
                          new_value |-> call.value,
                          success |-> TRUE])

C2_Witness ==
    /\ SetRead
    /\ HasAbility(call.log[1].resp)
    /\ InSeq(call.value, call.log[1].resp.ability)
    /\ PutsIn(call.log) # {}
    /\ \A i \in PutsIn(call.log) : call.log[i].outcome = "ok"
    /\ call.log[1].resp.value # call.value

\* the caller's input is rejected at the dispatch layer
BadInput ==
    /\ call.done
    /\ \/ /\ call.op = "get_camera_settings"
          /\ call.setting \notin {"all", "av", "tv", "iso", "shootingmodedial"}
       \/ /\ call.op = "set_camera_setting"
          /\ (call.setting \notin {"av", "tv", "iso"} \/ call.value = "")

\* C3: an unrecognized name on the read or the write path, or an empty value
\* on the write path, is answered invalid_parameter with no request sent to
\* the camera, whether the camera is reachable or not.
C3_CallerInputRejected ==
    BadInput => (/\ IsError(call.result, "invalid_parameter")
                 /\ call.log = <<>>)

C3_Witness ==
    /\ BadInput
    /\ ~reachable
    /\ call.op = "set_camera_setting"
    /\ call.setting = "iso"
    /\ call.value = ""

\* a finished get_camera_settings("all") the camera answered
GetAllOk(c) ==
    /\ c.op = "get_camera_settings"
    /\ c.setting = "all"
    /\ c.done
    /\ Len(c.log) = 1
    /\ c.log[1].outcome = "ok"

ProjectionExact(c) ==
    LET reported == c.log[1].resp
    IN  /\ DOMAIN c.result =
              {k \in {"av", "tv", "iso", "shootingmodedial"} : k \in DOMAIN reported}
        /\ \A k \in DOMAIN c.result : c.result[k] = reported[k]

\* C5: get_camera_settings("all") returns exactly the reported entries whose
\* key is av, tv, iso or shootingmodedial, records unchanged; and a second
\* such call on an unchanged camera document returns the same content.
C5_AllProjection ==
    [][/\ GetAllOk(call') => ProjectionExact(call')
       /\ (/\ GetAllOk(call)
           /\ call.log[1].resp = doc
           /\ GetAllOk(call'))
          => call'.result = call.result]_vars

C5_Witness ==
    /\ GetAllOk(call)
    /\ "extra_field" \in DOMAIN call.log[1].resp
    /\ "shootingmodedial" \notin DOMAIN call.log[1].resp
    /\ "av" \in DOMAIN call.result

\* C6: an invocation that finds the camera unreachable answers the
\* camera_communication_error envelope with success false; the server goes
\* on serving; and an invocation the camera answers succeeds, a failed one
\* before it or not.
C6_TransportFailureContained ==
    /\ (call.op \in Tools /\ call.done) => pc = "serving"
    /\ (/\ call.op \in Tools
        /\ call.done
        /\ \E i \in 1..Len(call.log) : call.log[i].outcome = "refused")
       => IsError(call.result, "camera_communication_error")
    /\ (/\ call.op = "get_liveview"
        /\ call.done
        /\ call.log[1].outcome = "ok"
        /\ call.log[1].resp \in LiveFrames)
       => (~IsEnvelope(call.result) /\ "image" \in DOMAIN call.result)
    /\ (/\ call.op = "get_camera_settings"
        /\ call.done
        /\ Len(call.log) = 1
        /\ call.log[1].outcome = "ok")
       => ~IsEnvelope(call.result)
    /\ (/\ call.op = "set_camera_setting"
        /\ call.done
        /\ \E i \in PutsIn(call.log) : call.log[i].outcome = "ok")
       => (~IsEnvelope(call.result) /\ call.result.success = TRUE)

C6_Witness ==
    /\ failedBefore
    /\ reachable
    /\ call.op = "get_liveview"
    /\ call.done
    /\ "image" \in DOMAIN call.result

\* C7: a PUT of set_camera_setting is the second request of its invocation,
\* after a GET of the same setting that was answered, and its value is in
\* the ability that GET returned when it returned one; after a failed GET
\* nothing more is sent.
C7_ReadBeforeWrite ==
    call.op = "set_camera_setting"
    => (/\ \A i \in PutsIn(call.log) :
              /\ i = 2
              /\ call.log[1].method = "GET"
              /\ call.log[1].ep = "settings"
              /\ call.log[1].name = call.log[i].name
              /\ call.log[1].outcome = "ok"
              /\ ("ability" \in DOMAIN call.log[1].resp
                    => InSeq(call.log[i].body, call.log[1].resp.ability))
        /\ (Len(call.log) >= 1 /\ call.log[1].outcome # "ok")
              => Len(call.log) = 1)

\* a PUT went out under an ability other than the one reported at startup
C7_Witness ==
    /\ call.op = "set_camera_setting"
    /\ PutsIn(call.log) # {}
    /\ "ability" \in DOMAIN call.log[1].resp
    /\ call.log[1].resp.ability # Doc0[call.setting].ability

\* C9 (as claimed): every request of the client carries a timeout, and no
\* invocation or probe blocks for good.
C9_EveryCallBounded ==
    /\ \A i \in 1..Len(call.log) : call.log[i].timeout # {}
    /\ pc # "hung"

\* C10: when the record just read has no ability field, the PUT is sent with
\* the value, the answer is never invalid_parameter, and the camera's answer
\* decides: success on 2xx, camera_communication_error otherwise.
C10_NoAbilityWriteProceeds ==
    (SetRead /\ "ability" \notin DOMAIN call.log[1].resp)
    => (/\ Len(call.log) = 2
        /\ call.log[2].method = "PUT"
        /\ call.log[2].name = call.setting
        /\ call.log[2].body = call.value
        /\ ~IsError(call.result, "invalid_parameter")
        /\ call.log[2].outcome = "ok"
              => (/\ ~IsEnvelope(call.result)
                  /\ call.result.success = TRUE
                  /\ call.result.new_value = call.value)
        /\ call.log[2].outcome # "ok"
              => IsError(call.result, "camera_communication_error"))

C10_Witness ==
    /\ SetRead
    /\ "ability" \notin DOMAIN call.log[1].resp
    /\ Len(call.log) = 2
    /\ call.log[2].outcome = "http_error"

\* the search steps: qualities 95, 90, ..., 10 and scales 90%, ..., 10%
Phase1Qualities == {q \in 10..95 : q % 5 = 0}
Phase2Percents == {p \in 10..90 : p % 10 = 0}

Produced == seenBefore \cup
              (IF img_byte_arr.kind = "BytesIO" THEN {img_byte_arr.size} ELSE {})

\* C4: when the quality-95 encoding exceeds the budget and some step of the
\* search produced an encoding within it, the adapter returns the buffer of
\* the first such step; a buffer over the budget is returned only after
\* every step, down to quality 10 and scale 10%, was tried.
C4_FirstFit ==
    (apc = "done" /\ q95size > target_size_bytes)
    => (/\ (\E s \in Produced : s <= target_size_bytes)
              => (/\ ret.kind = "return"
                  /\ ret.buf = img_byte_arr
                  /\ ret.buf.size <= target_size_bytes
                  /\ \A s \in seenBefore : s > target_size_bytes)
        /\ (ret.kind = "return" /\ ret.buf.size > target_size_bytes)
              => (/\ steps = Cardinality(Phase1Qualities) + Cardinality(Phase2Percents)
                  /\ ret.buf.dims = <<pil_img.size[1] \div 10, pil_img.size[2] \div 10>>))

\* the first fit is the very last step, scale 10%
C4_Witness ==
    /\ apc = "done"
    /\ q95size > target_size_bytes
    /\ ret.kind = "return"
    /\ ret.buf.size <= target_size_bytes
    /\ steps = Cardinality(Phase1Qualities) + Cardinality(Phase2Percents)
    /\ ret.buf.dims = <<pil_img.size[1] \div 10, pil_img.size[2] \div 10>>

\* C8 (as claimed): when no step fits, the buffer returned is the smallest
\* of those produced during Phase 2.
C8_SmallestOfPhase2 ==
    (/\ apc = "done"
     /\ ret.kind = "return"
     /\ seen2 # {}
     /\ \A s \in Produced : s > target_size_bytes)
    => \A s \in seen2 : ret.buf.size <= s

====
